---- MODULE Spec2Model ----
(***************************************************************************)
(* Model of BatchRecognizer (src/src/batch_recognizer.cc): the registry of *)
(* active streams (streams_), the per-id result queues (results_), the     *)
(* calls it makes on the batched decoding engine, and the lattice callback *)
(* the engine fires back.                                                  *)
(*                                                                         *)
(* Spec        every handler is one atomic step (calls are serialised).    *)
(* SpecThreads the handlers run on threads; every access to streams_ and   *)
(*             results_ is a begin step and an end step, with no lock in   *)
(*             between, as in the source.                                  *)
(***************************************************************************)
EXTENDS Integers, Sequences, FiniteSets, TLC

\* ---------------------------------------------------------------- bounds
MaxCalls == 3
MaxOps == 3
MaxWords == 4

\* Stream ids the callers use.
Ids == {1, 2}

\* Byte lengths handed to AcceptWaveform (len); the chunk has len / 2 samples.
Lens == {3}

\* One-best word sequences the MBR decoder may return for a lattice.
WordLists == {<<>>, <<"hello", "world">>}

\* Words of the symbol table, and the one-best sequences PushLattice is
\* applied to on its own (SpecBuild).
Vocabulary == {"hello", "world", "<unk>"}
WordSeqs == UNION {[1..n -> Vocabulary] : n \in 0..MaxWords}

\* Outcomes of decoding one chunk: no segment finalized, a callback with an
\* empty params.results, or a callback with a lattice.
NoResults == <<"<no-results>">>
Outcomes == {NoResults} \cup WordLists

Threads == {"caller1", "caller2", "engine"}
Callers == {"caller1", "caller2"}

VARIABLES
    streams,     \* streams_: ids of the active streams
    results,     \* results_: id -> queue of serialized transcripts
    callbacks,   \* engine: id -> id captured by the registered lambda, 0 if none
    regs,        \* engine: id -> number of SetLatticeCallback calls received
    calls,       \* engine: the pushes received, in order
    inflight,    \* engine: id -> chunks pushed and not yet decoded
    detected,    \* engine: id -> number of callbacks fired with a result
    fired,       \* id -> transcripts of the callbacks fired with a result
    delivered,   \* id -> transcripts removed by Pop, in order
    lastFront,   \* id -> value FrontResult returned since the last Pop
    pc,          \* thread -> what the thread is executing (SpecThreads)
    nops,        \* number of handler invocations started (SpecThreads)
    winfo,       \* winfo_ was loaded by the constructor
    fault,       \* the process has faulted
    warned,      \* number of "Empty result for callback" warnings logged
    completed,   \* WaitForCompletion has returned and nothing was pushed since
    mbrWords,    \* PushLattice: the one-best words (SpecBuild)
    jsonObj      \* PushLattice: the JSON object built from them (SpecBuild)

vars == <<streams, results, callbacks, regs, calls, inflight, detected, fired,
          delivered, lastFront, pc, nops, winfo, fault, warned, completed,
          mbrWords, jsonObj>>

\* ------------------------------------------------------------- data
\* Variant: the separator is written after every word.
JoinText_Trailing(words) ==
    [i \in 1..(2 * Len(words)) |->
        IF i % 2 = 1 THEN words[(i + 1) \div 2] ELSE " "]

\* text << " " between words (lines 161-164).
RECURSIVE JoinText(_)
JoinText(words) ==
    IF words = <<>> THEN <<>>
    ELSE IF Len(words) = 1 THEN <<words[1]>>
    ELSE JoinText(SubSeq(words, 1, Len(words) - 1)) \o <<" ", words[Len(words)]>>

\* obj["result"].append(word) for every word, obj["text"] = text.str().
BuildJson(words) ==
    [text |-> JoinText(words), result |-> words]

\* Variant: the text of the object is queued instead of its dump.
Dump_TextOnly(obj) == obj.text

\* obj.dump(): the keys of the object in key order; "result" exists only
\* when a word was appended.
Dump(obj) ==
    <<"{">>
    \o (IF obj.result = <<>> THEN <<>>
        ELSE <<"\"result\":[">> \o obj.result \o <<"],">>)
    \o <<"\"text\":\"">> \o obj.text \o <<"\"}">>

\* A queued string, tagged with the engine id and the number of the callback
\* that produced it.
Entry(k, n, words) ==
    [id |-> k, seq |-> n, json |-> Dump(BuildJson(words))]

\* return "" (line 226).
NotReady == [id |-> 0, seq |-> 0, json |-> <<>>]

\* Variant: a new key replaces the keys of the map.
Index_Reset(m, id) ==
    IF id \in DOMAIN m THEN m ELSE (id :> <<>>)

\* results_[id]: std::map::operator[] inserts an empty queue for a new key.
Index(m, id) ==
    IF id \in DOMAIN m THEN m ELSE m @@ (id :> <<>>)

\* The queue of id as a caller can observe it.
QueueOf(m, id) ==
    IF id \in DOMAIN m THEN m[id] ELSE <<>>

\* wave.Resize(len / 2) (line 215).
Samples(len) == len \div 2

\* Variant: every chunk is taken for the first chunk of its stream.
IsFirst_Always(strms, id) == TRUE

\* streams_.find(id) == streams_.end() (line 177).
IsFirst(strms, id) == id \notin strms

\* dynamic_batcher_->Push(id, first, last, chunk); active records whether id
\* was in streams_, and nregs how many callback registrations the engine had
\* received for id, when the call was made.
PushCall(id, first, last, samples, strms, nregs) ==
    [id |-> id, first |-> first, last |-> last, samples |-> samples,
     active |-> id \in strms, regs |-> nregs]

\* Variant: the new string goes to the head of the queue.
PushLattice_Prepend(m, id, entry) ==
    [Index(m, id) EXCEPT ![id] = <<entry>> \o @]

\* results_[id].push(obj.dump()) (line 170).
PushLattice(m, id, entry) ==
    [Index(m, id) EXCEPT ![id] = Append(@, entry)]

\* Variant: the lambda sees one id variable shared by all registrations.
CapturedId_Shared(id) == 1

\* The id the lambda passes to PushLattice: captured by value (line 202).
CapturedId(id) == id

\* Variant: the newest string is returned instead of the oldest.
FrontValue_Back(m, id) ==
    IF Index(m, id)[id] = <<>> THEN NotReady
    ELSE Index(m, id)[id][Len(Index(m, id)[id])]

\* results_[id].empty() ? "" : results_[id].front() (lines 225-228).
FrontValue(m, id) ==
    IF Index(m, id)[id] = <<>> THEN NotReady ELSE Head(Index(m, id)[id])

\* Variant: the whole queue is dropped.
PopMap_Clear(m, id) ==
    [Index(m, id) EXCEPT ![id] = <<>>]

\* Variant: the entry of a queue that becomes empty is erased.
PopMap_EraseEmpty(m, id) ==
    IF Len(Index(m, id)[id]) <= 1
    THEN [k \in DOMAIN m \ {id} |-> m[k]]
    ELSE [Index(m, id) EXCEPT ![id] = Tail(@)]

\* results_[id].pop() unless empty (lines 233-236).
PopMap(m, id) ==
    IF Index(m, id)[id] = <<>> THEN Index(m, id)
    ELSE [Index(m, id) EXCEPT ![id] = Tail(@)]

Idle == [op |-> "idle", id |-> 0, at |-> "idle", snap |-> <<>>, arg |-> <<>>]

\* No json::JSON object built yet.
NoObj == [built |-> FALSE, text |-> <<>>, result |-> <<>>]

\* ------------------------------------------------------------- Init
\* The state the constructor leaves (lines 27-105), but for winfo_.
Constructed ==
    /\ streams = {}
    /\ results = <<>>
    /\ callbacks = [i \in Ids |-> 0]
    /\ regs = [i \in Ids |-> 0]
    /\ calls = <<>>
    /\ inflight = [i \in Ids |-> 0]
    /\ detected = [i \in Ids |-> 0]
    /\ fired = [i \in Ids |-> <<>>]
    /\ delivered = [i \in Ids |-> <<>>]
    /\ lastFront = [i \in Ids |-> NotReady]
    /\ pc = [t \in Threads |-> Idle]
    /\ nops = 0
    /\ fault = FALSE
    /\ warned = 0
    /\ completed = FALSE
    /\ jsonObj = NoObj

\* The constructor found model/graph/phones/word_boundary.int and loaded
\* winfo_ (lines 83-87).
Init == Constructed /\ winfo = TRUE /\ mbrWords = <<>>

\* The constructor found no word_boundary.int: winfo_ was never set.
InitNoWinfo == Constructed /\ winfo = FALSE /\ mbrWords = <<>>

\* ------------------------------------------------------------- handlers
\* Variant: the chunk is pushed before the id is inserted and the callback
\* registered.
AcceptWaveform_PushFirst(id, len) ==
    LET first == IsFirst(streams, id)
    IN  /\ ~fault
        /\ Len(calls) + 1 <= MaxCalls
        /\ calls' = Append(calls, PushCall(id, first, FALSE, Samples(len), streams,
                                           regs[id]))
        /\ inflight' = [inflight EXCEPT ![id] = @ + 1]
        /\ streams' = IF first THEN streams \cup {id} ELSE streams
        /\ callbacks' = IF first THEN [callbacks EXCEPT ![id] = CapturedId(id)]
                        ELSE callbacks
        /\ regs' = IF first THEN [regs EXCEPT ![id] = @ + 1] ELSE regs
        /\ completed' = FALSE
        /\ UNCHANGED <<results, detected, fired, delivered, lastFront, pc, nops,
                       winfo, fault, warned, mbrWords, jsonObj>>

\* BatchRecognizer::AcceptWaveform (lines 173-221).
AcceptWaveform(id, len) ==
    LET first == IsFirst(streams, id)
        streams1 == IF first THEN streams \cup {id} ELSE streams
        regs1 == IF first THEN [regs EXCEPT ![id] = @ + 1] ELSE regs
    IN  /\ ~fault
        /\ Len(calls) + 1 <= MaxCalls
        /\ streams' = streams1
        /\ callbacks' = IF first THEN [callbacks EXCEPT ![id] = CapturedId(id)]
                        ELSE callbacks
        /\ regs' = regs1
        /\ calls' = Append(calls, PushCall(id, first, FALSE, Samples(len), streams1,
                                           regs1[id]))
        /\ inflight' = [inflight EXCEPT ![id] = @ + 1]
        /\ UNCHANGED <<results, detected, fired, delivered, lastFront, pc, nops,
                       winfo, fault, warned, mbrWords, jsonObj>>
        /\ completed' = FALSE

\* Variant: the queue of the stream is erased with its registry entry.
FinishStream_DropQueue(id) ==
    /\ ~fault
    /\ Len(calls) + 1 <= MaxCalls
    /\ calls' = Append(calls, PushCall(id, FALSE, TRUE, 0, streams, regs[id]))
    /\ inflight' = [inflight EXCEPT ![id] = @ + 1]
    /\ streams' = streams \ {id}
    /\ results' = [k \in DOMAIN results \ {id} |-> results[k]]
    /\ UNCHANGED <<callbacks, regs, detected, fired, delivered, lastFront, pc, nops,
                   winfo, fault, warned, mbrWords, jsonObj>>
    /\ completed' = FALSE

\* Variant: the id is erased before the last chunk is pushed.
FinishStream_EraseFirst(id) ==
    /\ ~fault
    /\ Len(calls) + 1 <= MaxCalls
    /\ streams' = streams \ {id}
    /\ calls' = Append(calls, PushCall(id, FALSE, TRUE, 0, streams \ {id}, regs[id]))
    /\ inflight' = [inflight EXCEPT ![id] = @ + 1]
    /\ UNCHANGED <<results, callbacks, regs, detected, fired, delivered, lastFront, pc, nops,
                   winfo, fault, warned, mbrWords, jsonObj>>
    /\ completed' = FALSE

\* BatchRecognizer::FinishStream (lines 124-130).
FinishStream(id) ==
    /\ ~fault
    /\ Len(calls) + 1 <= MaxCalls
    /\ calls' = Append(calls, PushCall(id, FALSE, TRUE, 0, streams, regs[id]))
    /\ inflight' = [inflight EXCEPT ![id] = @ + 1]
    /\ streams' = streams \ {id}
    /\ UNCHANGED <<results, callbacks, regs, detected, fired, delivered, lastFront, pc, nops,
                   winfo, fault, warned, mbrWords, jsonObj>>
    /\ completed' = FALSE

\* BatchRecognizer::FrontResult (lines 223-229).
FrontResult(id) ==
    /\ ~fault
    /\ results' = Index(results, id)
    /\ lastFront' = [lastFront EXCEPT ![id] = FrontValue(results, id)]
    /\ UNCHANGED <<streams, callbacks, regs, calls, inflight, detected, fired, delivered, pc, nops,
                   winfo, fault, warned, mbrWords, jsonObj, completed>>

\* BatchRecognizer::Pop (lines 231-237).
Pop(id) ==
    /\ ~fault
    /\ results' = PopMap(results, id)
    /\ delivered' = IF QueueOf(results, id) = <<>> THEN delivered
                    ELSE [delivered EXCEPT ![id] = Append(@, Head(results[id]))]
    /\ lastFront' = [lastFront EXCEPT ![id] = NotReady]
    /\ UNCHANGED <<streams, callbacks, regs, calls, inflight, detected, fired, pc, nops,
                   winfo, fault, warned, mbrWords, jsonObj, completed>>

\* The engine decodes one chunk of k and finalizes no segment, or has no
\* callback to invoke for k.
EngineDecode(k) ==
    /\ ~fault
    /\ inflight[k] > 0
    /\ inflight' = [inflight EXCEPT ![k] = @ - 1]
    /\ UNCHANGED <<streams, results, callbacks, regs, calls, detected, fired, delivered,
                   lastFront, pc, nops,
                   winfo, fault, warned, mbrWords, jsonObj, completed>>

\* WordAlignLattice(clat, *trans_model_, *winfo_, 0, &aligned_lat) (line 138):
\* with winfo_ loaded the call goes through; dereferencing a winfo_ that was
\* never set is undefined, the process faults or goes on.
DerefWinfo(loaded) == IF loaded THEN {"ok"} ELSE {"ok", "fault"}

\* Variant: params.results is not tested, an empty one is serialized as an
\* empty transcript.
LatticeCallback_NoCheck(k, out) ==
    /\ ~fault
    /\ inflight[k] > 0
    /\ callbacks[k] # 0
    /\ inflight' = [inflight EXCEPT ![k] = @ - 1]
    /\ LET e == Entry(k, detected[k] + 1, IF out = NoResults THEN <<>> ELSE out)
       IN  /\ results' = PushLattice(results, callbacks[k], e)
           /\ detected' = [detected EXCEPT ![k] = @ + 1]
           /\ fired' = [fired EXCEPT ![k] = Append(@, e)]
    /\ UNCHANGED <<streams, callbacks, regs, calls, delivered, lastFront, pc, nops,
                   winfo, fault, warned, completed, mbrWords, jsonObj>>

\* Variant: the result of a stream that is no longer in streams_ is dropped.
LatticeCallback_ActiveOnly(k, out) ==
    /\ ~fault
    /\ inflight[k] > 0
    /\ callbacks[k] # 0
    /\ inflight' = [inflight EXCEPT ![k] = @ - 1]
    /\ IF out = NoResults \/ k \notin streams
       THEN UNCHANGED <<results, detected, fired>>
       ELSE LET e == Entry(k, detected[k] + 1, out)
            IN  /\ results' = PushLattice(results, callbacks[k], e)
                /\ detected' = [detected EXCEPT ![k] = @ + 1]
                /\ fired' = [fired EXCEPT ![k] = Append(@, e)]
    /\ UNCHANGED <<streams, callbacks, regs, calls, delivered, lastFront, pc, nops,
                   winfo, fault, warned, completed, mbrWords, jsonObj>>

\* The lambda registered for k (lines 202-210), invoked by the engine after
\* decoding one chunk of k, with params.results empty (out = NoResults) or
\* holding a lattice whose one-best words are out.
LatticeCallback(k, out) ==
    /\ ~fault
    /\ inflight[k] > 0
    /\ callbacks[k] # 0
    /\ inflight' = [inflight EXCEPT ![k] = @ - 1]
    /\ IF out = NoResults
       THEN /\ warned' = warned + 1
            /\ UNCHANGED <<results, detected, fired, fault>>
       ELSE \E deref \in DerefWinfo(winfo) :
              IF deref = "fault"
              THEN /\ fault' = TRUE
                   /\ UNCHANGED <<results, detected, fired, warned>>
              ELSE LET e == Entry(k, detected[k] + 1, out)
                   IN  /\ results' = PushLattice(results, callbacks[k], e)
                       /\ detected' = [detected EXCEPT ![k] = @ + 1]
                       /\ fired' = [fired EXCEPT ![k] = Append(@, e)]
                       /\ UNCHANGED <<fault, warned>>
    /\ UNCHANGED <<streams, callbacks, regs, calls, delivered, lastFront, pc, nops,
                   winfo, completed, mbrWords, jsonObj>>

Next ==
    \/ \E id \in Ids, len \in Lens : AcceptWaveform(id, len)
    \/ \E id \in Ids : FinishStream(id)
    \/ \E id \in Ids : FrontResult(id)
    \/ \E id \in Ids : Pop(id)
    \/ \E k \in Ids : EngineDecode(k)
    \/ \E k \in Ids, out \in Outcomes : LatticeCallback(k, out)

Spec == Init /\ [][Next]_vars

\* The recognizer constructed without word-boundary information.
SpecNoWinfo == InitNoWinfo /\ [][Next]_vars

\* The engine has decoded every chunk it was given: what
\* dynamic_batcher_->WaitForCompletion() waits for.
EngineDrained == \A k \in Ids : inflight[k] = 0

\* Variant: the call returns without waiting for the engine.
WaitForCompletion_NoWait ==
    /\ ~fault
    /\ completed' = TRUE
    /\ UNCHANGED <<streams, results, callbacks, regs, calls, inflight, detected, fired,
                   delivered, lastFront, pc, nops, winfo, fault, warned, mbrWords, jsonObj>>

\* BatchRecognizer::WaitForCompletion (lines 239-242): returns when the
\* engine's WaitForCompletion returns.
WaitForCompletion ==
    /\ ~fault
    /\ EngineDrained
    /\ completed' = TRUE
    /\ UNCHANGED <<streams, results, callbacks, regs, calls, inflight, detected, fired,
                   delivered, lastFront, pc, nops, winfo, fault, warned, mbrWords, jsonObj>>

\* The value BatchRecognizer::GetPendingChunks returns (line 246).
PendingChunks(id) == inflight[id]

\* BatchRecognizer::GetPendingChunks (lines 244-247): a query, it returns
\* PendingChunks(id) and writes nothing.
GetPendingChunks(id) ==
    /\ ~fault
    /\ PendingChunks(id) >= 0
    /\ UNCHANGED vars

\* All the public methods and the callback.
NextFull ==
    \/ Next
    \/ WaitForCompletion
    \/ \E id \in Ids : GetPendingChunks(id)

SpecFull == Init /\ [][NextFull]_vars

\* A fair engine: every chunk it decodes for an id with a callback ends a
\* segment with a lattice, and the callback of a decoded segment is
\* eventually invoked.
NextFair ==
    \/ \E id \in Ids, len \in Lens : AcceptWaveform(id, len)
    \/ \E id \in Ids : FinishStream(id)
    \/ \E id \in Ids : FrontResult(id)
    \/ \E id \in Ids : Pop(id)
    \/ \E k \in Ids : callbacks[k] = 0 /\ EngineDecode(k)
    \/ \E k \in Ids, out \in WordLists : LatticeCallback(k, out)

Fairness ==
    \A k \in Ids : WF_vars(\E out \in WordLists : LatticeCallback(k, out))

SpecFair == Init /\ [][NextFair]_vars /\ Fairness

\* The loop of PushLattice over the one-best words (lines 146-166), applied
\* to any word sequence.
BuildTranscript ==
    /\ ~jsonObj.built
    /\ jsonObj' = [built |-> TRUE, text |-> BuildJson(mbrWords).text,
                   result |-> BuildJson(mbrWords).result]
    /\ UNCHANGED <<streams, results, callbacks, regs, calls, inflight, detected, fired,
                   delivered, lastFront, pc, nops, winfo, fault, warned, completed,
                   mbrWords>>

InitBuild == Constructed /\ winfo = TRUE /\ mbrWords \in WordSeqs

NextBuild == BuildTranscript

SpecBuild == InitBuild /\ [][NextBuild]_vars

TypeOK ==
    /\ streams \subseteq Ids
    /\ DOMAIN results \subseteq Ids
    /\ Len(calls) <= MaxCalls

\* ------------------------------------------------------------- threads
\* The handlers as they run on threads. The source takes no lock, so every
\* access to streams_ or results_ is a begin step, which enters the container
\* and sees its state (snap), and an end step, which leaves it and applies the
\* effect; other threads may step in between. An access that modifies a
\* container which another thread modified meanwhile is a data race: its
\* write lands either on the state it saw or on the current one.

Bases(snap, cur) == {snap, cur}

\* The map after a thread that entered it in state base applied F to the
\* queue of id: a node the thread links in from a stale base drops the nodes
\* linked in meanwhile, and a write to an unlinked node is lost.
Commit(cur, base, id, F(_)) ==
    LET keys == IF id \in DOMAIN base THEN DOMAIN cur
                ELSE (DOMAIN base \cap DOMAIN cur) \cup {id}
    IN  [k \in keys |-> IF k = id THEN F(QueueOf(base, id)) ELSE cur[k]]

At(t, op, label) == pc[t].op = op /\ pc[t].at = label

Goto(t, op, id, label, snap, arg) ==
    pc' = [pc EXCEPT ![t] = [op |-> op, id |-> id, at |-> label,
                             snap |-> snap, arg |-> arg]]

Return(t) == pc' = [pc EXCEPT ![t] = Idle]

\* AcceptWaveform is called: streams_.find(id) begins (line 177).
AcceptBegin(t, id, len) ==
    /\ ~fault
    /\ pc[t] = Idle
    /\ nops < MaxOps
    /\ nops' = nops + 1
    /\ Goto(t, "AcceptWaveform", id, "find", streams, len)
    /\ UNCHANGED <<streams, results, callbacks, regs, calls, inflight, detected, fired,
                   delivered, lastFront,
                   winfo, fault, warned, mbrWords, jsonObj, completed>>

\* find ends; a continuation chunk is pushed (line 220), a first chunk begins
\* streams_.insert(id) (line 179).
AcceptFind(t) ==
    /\ ~fault
    /\ At(t, "AcceptWaveform", "find")
    /\ LET id == pc[t].id
           len == pc[t].arg
       IN  IF IsFirst(streams, id)
           THEN /\ Goto(t, "AcceptWaveform", id, "insert", streams, len)
                /\ UNCHANGED <<calls, inflight>>
           ELSE /\ Len(calls) + 1 <= MaxCalls
                /\ calls' = Append(calls, PushCall(id, FALSE, FALSE, Samples(len), streams, regs[id]))
                /\ inflight' = [inflight EXCEPT ![id] = @ + 1]
                /\ Return(t)
    /\ UNCHANGED <<streams, results, callbacks, regs, detected, fired, delivered,
                   lastFront, nops,
                   winfo, fault, warned, mbrWords, jsonObj>>
    /\ completed' = (completed /\ IsFirst(streams, pc[t].id))

\* insert ends; the callback is registered and the first chunk pushed
\* (lines 200-220).
AcceptInsert(t) ==
    /\ ~fault
    /\ At(t, "AcceptWaveform", "insert")
    /\ Len(calls) + 1 <= MaxCalls
    /\ LET id == pc[t].id
       IN  \E base \in Bases(pc[t].snap, streams) :
             LET streams1 == base \cup {id}
             IN  /\ streams' = streams1
                 /\ callbacks' = [callbacks EXCEPT ![id] = CapturedId(id)]
                 /\ regs' = [regs EXCEPT ![id] = @ + 1]
                 /\ calls' = Append(calls, PushCall(id, TRUE, FALSE, Samples(pc[t].arg),
                                                    streams1, regs[id] + 1))
                 /\ inflight' = [inflight EXCEPT ![id] = @ + 1]
    /\ Return(t)
    /\ UNCHANGED <<results, detected, fired, delivered, lastFront, nops,
                   winfo, fault, warned, mbrWords, jsonObj>>
    /\ completed' = FALSE

\* FinishStream is called: the last chunk is pushed (line 128) and
\* streams_.erase(id) begins (line 129).
FinishBegin(t, id) ==
    /\ ~fault
    /\ pc[t] = Idle
    /\ nops < MaxOps
    /\ nops' = nops + 1
    /\ Len(calls) + 1 <= MaxCalls
    /\ calls' = Append(calls, PushCall(id, FALSE, TRUE, 0, streams, regs[id]))
    /\ inflight' = [inflight EXCEPT ![id] = @ + 1]
    /\ Goto(t, "FinishStream", id, "erase", streams, <<>>)
    /\ UNCHANGED <<streams, results, callbacks, regs, detected, fired, delivered, lastFront,
                   winfo, fault, warned, mbrWords, jsonObj>>
    /\ completed' = FALSE

\* erase ends.
FinishErase(t) ==
    /\ ~fault
    /\ At(t, "FinishStream", "erase")
    /\ \E base \in Bases(pc[t].snap, streams) : streams' = base \ {pc[t].id}
    /\ Return(t)
    /\ UNCHANGED <<results, callbacks, regs, calls, inflight, detected, fired, delivered,
                   lastFront, nops,
                   winfo, fault, warned, mbrWords, jsonObj, completed>>

\* FrontResult is called: results_[id] begins (line 225).
FrontBegin(t, id) ==
    /\ ~fault
    /\ pc[t] = Idle
    /\ nops < MaxOps
    /\ nops' = nops + 1
    /\ Goto(t, "FrontResult", id, "front", results, <<>>)
    /\ UNCHANGED <<streams, results, callbacks, regs, calls, inflight, detected, fired,
                   delivered, lastFront,
                   winfo, fault, warned, mbrWords, jsonObj, completed>>

\* the front of the queue has been read (line 228).
FrontEnd(t) ==
    /\ ~fault
    /\ At(t, "FrontResult", "front")
    /\ LET id == pc[t].id
       IN  \E base \in Bases(pc[t].snap, results) :
             /\ results' = Commit(results, base, id, LAMBDA q : q)
             /\ lastFront' = [lastFront EXCEPT ![id] = FrontValue(base, id)]
    /\ Return(t)
    /\ UNCHANGED <<streams, callbacks, regs, calls, inflight, detected, fired, delivered, nops,
                   winfo, fault, warned, mbrWords, jsonObj, completed>>

\* Pop is called: results_[id] begins (line 233).
PopBegin(t, id) ==
    /\ ~fault
    /\ pc[t] = Idle
    /\ nops < MaxOps
    /\ nops' = nops + 1
    /\ Goto(t, "Pop", id, "pop", results, <<>>)
    /\ UNCHANGED <<streams, results, callbacks, regs, calls, inflight, detected, fired,
                   delivered, lastFront,
                   winfo, fault, warned, mbrWords, jsonObj, completed>>

\* the head has been removed (line 236).
PopEnd(t) ==
    /\ ~fault
    /\ At(t, "Pop", "pop")
    /\ LET id == pc[t].id
       IN  \E base \in Bases(pc[t].snap, results) :
             /\ results' = Commit(results, base, id, LAMBDA q : QueueOf(PopMap(id :> q, id), id))
             /\ delivered' = IF QueueOf(base, id) = <<>> THEN delivered
                             ELSE [delivered EXCEPT ![id] = Append(@, Head(base[id]))]
             /\ lastFront' = [lastFront EXCEPT ![id] = NotReady]
    /\ Return(t)
    /\ UNCHANGED <<streams, callbacks, regs, calls, inflight, detected, fired, nops,
                   winfo, fault, warned, mbrWords, jsonObj, completed>>

\* The engine thread invokes the lambda of k (lines 202-209): an empty
\* params.results returns, a lattice is serialized and results_[id].push
\* begins (line 170).
CallbackBegin(t, k, out) ==
    /\ ~fault
    /\ t \notin Callers
    /\ pc[t] = Idle
    /\ inflight[k] > 0
    /\ callbacks[k] # 0
    /\ inflight' = [inflight EXCEPT ![k] = @ - 1]
    /\ IF out = NoResults
       THEN /\ warned' = warned + 1
            /\ UNCHANGED <<detected, fired, pc, fault>>
       ELSE \E deref \in DerefWinfo(winfo) :
              IF deref = "fault"
              THEN /\ fault' = TRUE
                   /\ UNCHANGED <<detected, fired, pc, warned>>
              ELSE LET e == Entry(k, detected[k] + 1, out)
                   IN  /\ detected' = [detected EXCEPT ![k] = @ + 1]
                       /\ fired' = [fired EXCEPT ![k] = Append(@, e)]
                       /\ Goto(t, "PushLattice", callbacks[k], "push", results, e)
                       /\ UNCHANGED <<fault, warned>>
    /\ UNCHANGED <<streams, results, callbacks, regs, calls, delivered, lastFront, nops,
                   winfo, completed, mbrWords, jsonObj>>

\* push ends.
CallbackEnd(t) ==
    /\ ~fault
    /\ At(t, "PushLattice", "push")
    /\ LET id == pc[t].id
       IN  \E base \in Bases(pc[t].snap, results) :
             results' = Commit(results, base, id,
                               LAMBDA q : PushLattice(id :> q, id, pc[t].arg)[id])
    /\ Return(t)
    /\ UNCHANGED <<streams, callbacks, regs, calls, inflight, detected, fired, delivered,
                   lastFront, nops,
                   winfo, fault, warned, mbrWords, jsonObj, completed>>

NextThreads ==
    \/ \E t \in Callers, id \in Ids, len \in Lens : AcceptBegin(t, id, len)
    \/ \E t \in Callers : AcceptFind(t)
    \/ \E t \in Callers : AcceptInsert(t)
    \/ \E t \in Callers, id \in Ids : FinishBegin(t, id)
    \/ \E t \in Callers : FinishErase(t)
    \/ \E t \in Callers, id \in Ids : FrontBegin(t, id)
    \/ \E t \in Callers : FrontEnd(t)
    \/ \E t \in Callers, id \in Ids : PopBegin(t, id)
    \/ \E t \in Callers : PopEnd(t)
    \/ \E t \in Threads, k \in Ids, out \in Outcomes : CallbackBegin(t, k, out)
    \/ \E t \in Threads : CallbackEnd(t)
    \/ \E k \in Ids : EngineDecode(k)

SpecThreads == Init /\ [][NextThreads]_vars

\* The container a thread is inside, and whether the access modifies it.
InStreams(t) == pc[t].at \in {"find", "insert", "erase"}
WritesStreams(t) ==
    \/ pc[t].at = "insert"
    \/ pc[t].at = "erase" /\ pc[t].id \in pc[t].snap
InResults(t) == pc[t].at \in {"front", "pop", "push"}
WritesResults(t) == InResults(t) /\ pc[t].id \notin DOMAIN pc[t].snap
WritesQueue(t) ==
    \/ pc[t].at = "push"
    \/ pc[t].at = "pop" /\ QueueOf(pc[t].snap, pc[t].id) # <<>>

\* ------------------------------------------------------------- claims
\* The session of id was started and FinishStream(id) has completed: the
\* last-chunk push made while id was active is in the engine's log.
Finished(id) ==
    \E i \in 1..Len(calls) :
calls[i].id = id /\ calls[i].last /\ calls[i].active

\* The pushes the engine received for id.
CallsOf(id) == SelectSeq(calls, LAMBDA c : c.id = id)

\* C1: once FinishSession(id) has completed, a later AcceptAudio(id, chunk) is
\* rejected: it pushes nothing to the engine, does not re-insert id into the
\* registry and registers no callback.
C1_AcceptAfterFinishRejected ==
    [][\A id \in Ids, len \in Lens :
         (Finished(id) /\ id \notin streams /\ AcceptWaveform(id, len))
            => /\ calls' = calls
               /\ streams' = streams
               /\ callbacks' = callbacks
               /\ regs' = regs]_vars

\* C2: for every id, the transcripts removed by Pop followed by the ones still
\* queued are exactly the transcripts of the callbacks fired with a result for
\* id, in the order the callbacks fired.
C2_FifoDelivery ==
    \A id \in Ids : delivered[id] \o QueueOf(results, id) = fired[id]

C2_Witness ==
    \E id \in Ids :
        /\ Len(delivered[id]) = 2
        /\ delivered[id][1].seq = 1
        /\ delivered[id][2].seq = 2

\* C3: every transcript in the queue of id a was produced by the callback
\* registered for a.
C3_Isolation ==
    \A a \in DOMAIN results :
        \A i \in 1..Len(results[a]) : results[a][i].id = a

C3_Witness ==
    \E a, b \in Ids :
        /\ a # b
        /\ QueueOf(results, a) # <<>>
        /\ QueueOf(results, b) # <<>>

\* C4: for every push made while id is active, the engine has received exactly
\* one callback registration for id, and exactly one push with isFirst = true,
\* since the previous last-chunk push of id (the session's lifetime so far).
C4_FirstChunkOnce ==
    \A id \in Ids :
        LET P == CallsOf(id)
        IN  \A i \in 1..Len(P) :
                P[i].active =>
                    LET ends == {j \in 1..(i - 1) : P[j].last}
                        s == IF ends = {} THEN 0
                             ELSE CHOOSE j \in ends : \A h \in ends : h <= j
                        before == IF s = 0 THEN 0 ELSE P[s].regs
                    IN  /\ P[i].regs = before + 1
                        /\ Cardinality({j \in (s + 1)..i : P[j].first}) = 1

C4_Witness ==
    \E id \in Ids :
        /\ id \in streams
        /\ Len(SelectSeq(CallsOf(id), LAMBDA c : ~c.last)) >= 3

\* C7: a FrontResult(id) that follows a FrontResult(id) which returned a
\* transcript, with no Pop(id) in between, returns that same transcript; and
\* Pop(id) on an empty queue leaves every queue as it was.
C7_IdempotentDrain ==
    [][\A id \in Ids :
         /\ (FrontResult(id) /\ lastFront[id] # NotReady)
                => lastFront'[id] = lastFront[id]
         /\ (Pop(id) /\ QueueOf(results, id) = <<>>)
                => \A j \in Ids : QueueOf(results', j) = QueueOf(results, j)]_vars

C7_Witness ==
    \E id \in Ids :
        /\ lastFront[id] # NotReady
        /\ Len(QueueOf(results, id)) >= 2
        /\ \E j \in Ids : j \in DOMAIN results /\ results[j] = <<>>

\* C8: FinishSession(id) leaves the result queue of id as it was.
C8_FinishKeepsQueue ==
    [][\A id \in Ids :
         FinishStream(id) => QueueOf(results', id) = QueueOf(results, id)]_vars

C8_Witness ==
    \E id \in Ids :
        /\ Finished(id)
        /\ id \notin streams
        /\ Len(QueueOf(results, id)) >= 2

\* C9: FinishSession(id) on an active id makes exactly one engine call, a push
\* with isFirst = false, isLast = true and zero samples, made while id is still
\* in the registry, and then removes id; and every step that adds a push with
\* isLast = true is a FinishSession.
C9_FinishPushesLast ==
    [][/\ \A id \in Ids :
            (FinishStream(id) /\ id \in streams)
               => /\ calls' = Append(calls,
                        [id |-> id, first |-> FALSE, last |-> TRUE,
                         samples |-> 0, active |-> TRUE, regs |-> regs[id]])
                  /\ regs' = regs
                  /\ streams' = streams \ {id}
       /\ (\E i \in (Len(calls) + 1)..Len(calls') : calls'[i].last)
               => \E id \in Ids : FinishStream(id)]_vars

C9_Witness ==
    \E i \in 1..Len(calls) :
        /\ calls[i].last
        /\ calls[i].active
        /\ calls[i].id \notin streams

\* C10: FinishSession(id) on an id that is not in the registry pushes nothing
\* to the engine and changes neither the registry nor any queue.
C10_FinishInactiveNoop ==
    [][\A id \in Ids :
         (FinishStream(id) /\ id \notin streams)
            => /\ calls' = calls
               /\ streams' = streams
               /\ results' = results]_vars

\* C5: an enqueue by the engine's callback thread and a FrontResult or Pop by
\* a caller thread on the same id never overlap, and once every thread has
\* returned no transcript of a fired callback is missing from what was
\* delivered and what is queued.
C5_EnqueueDequeueExclusive ==
    /\ \A t \in Callers :
          ~(/\ At("engine", "PushLattice", "push")
            /\ pc[t].op \in {"FrontResult", "Pop"}
            /\ pc[t].id = pc["engine"].id)
    /\ (\A t \in Threads : pc[t] = Idle)
          => \A id \in Ids : delivered[id] \o QueueOf(results, id) = fired[id]

\* C6: two threads working on different ids are never inside the registry, or
\* inside the id-to-queue map, at the same time with one of them modifying it.
C6_NoRaceOnDistinctIds ==
    \A t1, t2 \in Threads :
        (t1 # t2 /\ pc[t1] # Idle /\ pc[t2] # Idle /\ pc[t1].id # pc[t2].id)
            => /\ ~(InStreams(t1) /\ InStreams(t2) /\ WritesStreams(t1))
               /\ ~(InResults(t1) /\ InResults(t2) /\ WritesResults(t1))

\* The serialized object of a segment without words: {"text":""}.
EmptyTextJson == <<"{", "\"text\":\"", "\"}">>

\* The queues of all ids are as they were.
SameQueues == \A j \in Ids : QueueOf(results', j) = QueueOf(results, j)

\* C11: a callback with a lattice whose word list is empty enqueues the
\* serialized transcript with empty text, and what FrontResult(id) returns
\* then is not the empty string it returns when nothing is queued.
C11_EmptySegmentDistinct ==
    [][\A k \in Ids :
         LatticeCallback(k, <<>>) =>
            LET q == QueueOf(results', k)
            IN  /\ Len(q) = Len(QueueOf(results, k)) + 1
                /\ q[Len(q)].json = EmptyTextJson
                /\ FrontValue(results', k).json # NotReady.json]_vars

C11_Witness ==
    \E id \in Ids : lastFront[id].json = EmptyTextJson

\* C12: a callback with an empty params.results enqueues nothing: every
\* queue and the registry are as they were.
C12_EmptyResultDropped ==
    [][\A k \in Ids :
         LatticeCallback(k, NoResults)
            => /\ results' = results
               /\ streams' = streams
               /\ fired' = fired]_vars

C12_Witness ==
    /\ warned > 0
    /\ \E id \in Ids : QueueOf(results, id) # <<>>

\* C13: after WaitForCompletion has returned, and while no AcceptWaveform or
\* FinishStream is called, no callback fires and no queue grows.
C13_NoCallbackAfterWait ==
    [][(completed /\ completed')
          => /\ fired' = fired
             /\ \A id \in Ids :
                   Len(QueueOf(results', id)) <= Len(QueueOf(results, id))]_vars

C13_Witness ==
    /\ completed
    /\ \E id \in Ids : fired[id] # <<>> /\ Finished(id)

\* C14: a recognizer constructed without word-boundary information never
\* faults.
C14_NoFaultWithoutWinfo ==
    ~winfo => ~fault

\* C15: FrontResult(id) on an id without a queue, as on an empty queue,
\* returns the not-ready value, and Pop(id) removes nothing; both leave the
\* registry and the contents of every queue as they were.
C15_UnknownIdIsEmpty ==
    [][\A id \in Ids :
         QueueOf(results, id) = <<>> =>
            /\ FrontResult(id) =>
                  lastFront'[id] = NotReady /\ streams' = streams /\ SameQueues
            /\ Pop(id) =>
                  delivered' = delivered /\ streams' = streams /\ SameQueues]_vars

C15_Witness ==
    \E id, j \in Ids :
        /\ id \in DOMAIN results
        /\ regs[id] = 0
        /\ results[id] = <<>>
        /\ QueueOf(results, j) # <<>>

\* C16: AcceptWaveform(id, len) makes exactly one push, with isLast = false
\* and isFirst = true exactly when id was not in the registry; at the push id
\* is in the registry and its callback is registered, by this call when the
\* chunk is the first and by no new registration otherwise.
C16_AcceptPushesOnce ==
    [][\A id \in Ids, len \in Lens :
         AcceptWaveform(id, len) =>
            /\ calls' = Append(calls,
                  [id |-> id, first |-> id \notin streams, last |-> FALSE,
                   samples |-> len \div 2, active |-> TRUE, regs |-> regs'[id]])
            /\ regs'[id] >= 1
            /\ regs'[id] = regs[id] + (IF id \notin streams THEN 1 ELSE 0)
            /\ callbacks'[id] = id
            /\ id \in streams']_vars

C16_Witness ==
    \E i, j \in 1..Len(calls) :
        /\ i < j
        /\ calls[i].id = calls[j].id
        /\ calls[i].first /\ ~calls[i].last
        /\ ~calls[j].first /\ ~calls[j].last

\* C17: the text built from words w1..wn is the words in order with one
\* space between consecutive words, nothing before or after, and the result
\* list holds the n words in order.
C17_TextJoinedBySpaces ==
    jsonObj.built =>
        LET n == Len(mbrWords)
            t == jsonObj.text
        IN  /\ Len(jsonObj.result) = n
            /\ \A i \in 1..n : jsonObj.result[i] = mbrWords[i]
            /\ Len(t) = (IF n = 0 THEN 0 ELSE 2 * n - 1)
            /\ \A i \in 1..n : t[2 * i - 1] = mbrWords[i]
            /\ \A i \in 1..(n - 1) : t[2 * i] = " "

C17_Witness ==
    /\ jsonObj.built
    /\ Len(mbrWords) >= 3
    /\ mbrWords[1] = mbrWords[2]

\* C18: a callback for k with a lattice appends its transcript to the queue
\* of k whether or not k is still in the registry, and under a fair engine
\* the callback of every segment in flight eventually fires, so that every
\* segment decoded for k, the one flushed by FinishStream included, is
\* eventually queued or already delivered.
C18_SegmentEventuallyQueued ==
    /\ [][\A k \in Ids, out \in WordLists :
            LatticeCallback(k, out) =>
               QueueOf(results', k)
                  = Append(QueueOf(results, k), Entry(k, detected[k] + 1, out))]_vars
    /\ \A k \in Ids :
          (callbacks[k] # 0 /\ inflight[k] > 0)
             ~> /\ inflight[k] = 0
                /\ Len(delivered[k]) + Len(QueueOf(results, k)) = detected[k]

C18_Witness ==
    \E k \in Ids :
        /\ Finished(k)
        /\ k \notin streams
        /\ inflight[k] = 0
        /\ \E i \in 1..Len(QueueOf(results, k)) : results[k][i].seq = Len(CallsOf(k))

\* C19: a callback for k appends at most one transcript at the tail of the
\* queue of k, Pop(id) removes the head of the queue of id, both leave the
\* other queues alone, no other operation changes the contents of a queue,
\* and every change of a queue is one of these two.
C19_QueueChanges ==
    [][/\ SameQueues
          \/ ~\E id \in Ids :
                \/ \E len \in Lens : AcceptWaveform(id, len)
                \/ FinishStream(id)
                \/ FrontResult(id)
                \/ GetPendingChunks(id)
       /\ SameQueues \/ ~WaitForCompletion
       /\ \A id \in Ids :
            \/ /\ \A j \in Ids \ {id} : QueueOf(results', j) = QueueOf(results, j)
               /\ QueueOf(results', id) =
                     (IF QueueOf(results, id) = <<>> THEN <<>>
                      ELSE Tail(results[id]))
            \/ ~Pop(id)
       /\ \A k \in Ids :
            \/ /\ \A j \in Ids \ {k} : QueueOf(results', j) = QueueOf(results, j)
               /\ \/ QueueOf(results', k) = QueueOf(results, k)
                  \/ /\ Len(QueueOf(results', k)) = Len(QueueOf(results, k)) + 1
                     /\ SubSeq(results'[k], 1, Len(QueueOf(results, k)))
                           = QueueOf(results, k)
            \/ ~\E out \in Outcomes : LatticeCallback(k, out)
       /\ \/ SameQueues
          \/ \E k \in Ids, out \in WordLists : LatticeCallback(k, out)
          \/ \E id \in Ids : Pop(id)]_vars

C19_Witness ==
    /\ completed
    /\ \E id \in Ids : Len(delivered[id]) >= 1 /\ Len(QueueOf(results, id)) >= 1

\* C20: no step removes a key of the id-to-queue map, and FrontResult(id),
\* Pop(id) and a callback with a lattice leave a key for their id.
C20_KeysNeverShrink ==
    [][/\ DOMAIN results \subseteq DOMAIN results'
       /\ \A id \in Ids : (FrontResult(id) \/ Pop(id)) => id \in DOMAIN results'
       /\ \A k \in Ids, out \in WordLists :
            LatticeCallback(k, out) => k \in DOMAIN results']_vars

C20_Witness ==
    \E id, j \in Ids :
        /\ Finished(id)
        /\ delivered[id] # <<>>
        /\ id \in DOMAIN results
        /\ results[id] = <<>>
        /\ j \in DOMAIN results
        /\ regs[j] = 0

====
